---- MODULE Spec2Model ----
\* Model of src/zh_cn/notebooks/ch3.ipynb: the counting queries over the
\* census table `adult` and the Laplace mechanism built on them.
\*
\* The notebook is a sequence of cells run by one kernel.  Its state is the
\* kernel's globals (adult, sensitivity, epsilon, karries_row), the position
\* of the process-wide random source, and the value the running cell has
\* produced.  Each statement of a code cell is one action; pc forces the
\* statements of a cell to run in order and without interleaving.
\*
\* Python floats are IEEE-754 binary64 numbers.  The model keeps the rounding
\* of every float operation (round to nearest, ties to even) but shortens the
\* significand from 53 bits to MantBits bits; the exponent is unbounded.
EXTENDS Integers, Sequences, FiniteSets

\* ------------------------------------------------------------------ bounds
MaxRecords == 2     \* rows of the loaded table
MantBits == 4       \* significand bits of a float
MaxSamples == 2     \* Laplace samples drawn in a run

\* ------------------------------------------------------------- arithmetic
RECURSIVE GCD(_, _)
GCD(a, b) == IF b = 0 THEN a ELSE GCD(b, a % b)

RECURSIVE Pow2(_)
Pow2(k) == IF k <= 0 THEN 1 ELSE 2 * Pow2(k - 1)

\* A float: sign bit and magnitude n/d in lowest terms (a zero keeps its sign).
Reduced(neg, n, d, g) == [neg |-> neg, n |-> n \div g, d |-> d \div g]
Mk(neg, n, d) == Reduced(neg, n, d, GCD(n, d))

\* The binary exponent e with 2^(MantBits-1) <= (n/d) / 2^e < 2^MantBits.
\* n/d divided by 2^e, as numerator and denominator.
ScaledNum(n, e) == IF e < 0 THEN n * Pow2(-e) ELSE n
ScaledDen(d, e) == IF e > 0 THEN d * Pow2(e) ELSE d

RECURSIVE ExpoFrom(_, _, _, _, _)
ExpoFrom(n, d, e, N, D) ==
    IF N >= D * Pow2(MantBits)
    THEN ExpoFrom(n, d, e + 1, ScaledNum(n, e + 1), ScaledDen(d, e + 1))
    ELSE IF N < D * Pow2(MantBits - 1)
    THEN ExpoFrom(n, d, e - 1, ScaledNum(n, e - 1), ScaledDen(d, e - 1))
    ELSE e

Expo(n, d, e) == ExpoFrom(n, d, e, ScaledNum(n, e), ScaledDen(d, e))

\* The integer nearest to N/D, ties to the even one.
NearestEven(q, r, D) ==
    IF 2 * r > D \/ (2 * r = D /\ q % 2 = 1) THEN q + 1 ELSE q

\* The float of significand m and exponent e.
Assemble(neg, m, e) ==
    IF e >= 0 THEN Mk(neg, m * Pow2(e), 1) ELSE Mk(neg, m, Pow2(-e))

RoundScaled(neg, e, N, D) == Assemble(neg, NearestEven(N \div D, N % D, D), e)

RoundAt(neg, n, d, e) == RoundScaled(neg, e, ScaledNum(n, e), ScaledDen(d, e))

\* Round the real n/d (n >= 0, d > 0) to a float: nearest, ties to even.
Round(neg, n, d) ==
    IF n = 0 THEN Mk(neg, 0, 1) ELSE RoundAt(neg, n, d, Expo(n, d, 0))

\* int -> float, as Python converts the int operand of a mixed operation.
FromInt(i) == IF i < 0 THEN Round(TRUE, -i, 1) ELSE Round(FALSE, i, 1)

Zero == FromInt(0)

SNum(a) == IF a.neg THEN -a.n ELSE a.n

Lt(a, b) == SNum(a) * b.d < SNum(b) * a.d
Le(a, b) == SNum(a) * b.d <= SNum(b) * a.d

IsZero(a) == a.n = 0

\* np.signbit: true of negative numbers and of -0.0.
signbit(a) == a.neg

Neg(a) == [a EXCEPT !.neg = ~a.neg]

\* float / float, divisor not zero.
FDiv(a, b) == Round(a.neg # b.neg, a.n * b.d, a.d * b.n)

FMul(a, b) == Round(a.neg # b.neg, a.n * b.n, a.d * b.d)

\* float + float; an exact zero sum is +0.0 unless both operands are negative.
RoundSigned(s, d, negzero) ==
    IF s = 0 THEN Mk(negzero, 0, 1)
    ELSE IF s < 0 THEN Round(TRUE, -s, d)
    ELSE Round(FALSE, s, d)

FAdd(a, b) == RoundSigned(SNum(a) * b.d + SNum(b) * a.d, a.d * b.d, a.neg /\ b.neg)

FSub(a, b) == FAdd(a, Neg(b))

\* ------------------------------------------------------------------- data
Names == {"Karrie Trusslove", "Other"}
Ages == {39, 40}
Targets == {"<=50K", ">50K"}

\* A row of adult_with_pii.csv, cut down to the columns the queries read.
\* The rows a table is built from: every age, and every pair of name and
\* target, occurs among them (no query reads Age together with another column).
Records ==
    { [Name |-> "Karrie Trusslove", Age |-> 40, Target |-> "<=50K"],
      [Name |-> "Karrie Trusslove", Age |-> 39, Target |-> ">50K"],
      [Name |-> "Other", Age |-> 40, Target |-> ">50K"],
      [Name |-> "Other", Age |-> 39, Target |-> "<=50K"] }

NumColumns == Cardinality(DOMAIN [Name |-> "Other", Age |-> 39, Target |-> ">50K"])

RECURSIVE SeqsUpTo(_, _)
SeqsUpTo(S, k) ==
    IF k = 0 THEN {<<>>}
    ELSE LET shorter == SeqsUpTo(S, k - 1)
         IN  shorter \cup {Append(t, x) : t \in {u \in shorter : Len(u) = k - 1}, x \in S}

Datasets == SeqsUpTo(Records, MaxRecords)

\* Literals a cell may be run with.
AgeLiterals == {39, 40, 41}
SensValues == {-1, 0, 1, 3}
EpsValues ==
    { Mk(TRUE, 1, 1),
      Zero,
      Mk(FALSE, 1, 8),
      Mk(FALSE, 1, 1),
      Mk(FALSE, Pow2(MantBits) - 2, Pow2(MantBits - 1)),
      Mk(FALSE, Pow2(MantBits) - 1, Pow2(MantBits - 1)) }

\* What the uniform draw U of the sampler comes to: the branch taken and the
\* logarithm it computes (log(2 - 2U) <= 0 for U >= 0.5, log(2U) < 0 below).
Draws ==
    { [branch |-> "hi", log |-> Zero],
      [branch |-> "hi", log |-> Mk(TRUE, 1, 1)],
      [branch |-> "lo", log |-> Mk(TRUE, 1, 1)],
      [branch |-> "lo", log |-> Mk(TRUE, 3, 2)] }

\* ---------------------------------------------------------------- queries
\* adult[adult['Age'] >= a]
FilterAge(df, a) == LET Test(r) == r.Age >= a IN SelectSeq(df, Test)

\* adult[adult['Name'] == n]
FilterName(df, n) == LET Test(r) == r.Name = n IN SelectSeq(df, Test)

\* karries_row[karries_row['Target'] == t]
FilterTargetNot(df, t) == LET Test(r) == r.Target # t IN SelectSeq(df, Test)
FilterTarget(df, t) == LET Test(r) == r.Target = t IN SelectSeq(df, Test)

\* .shape[0]: the number of rows of a frame.
size(df) == Len(df) * NumColumns
shape0(df) == Len(df)

\* ------------------------------------------------------------- mechanism
\* sensitivity/epsilon, epsilon not zero (s is an int, e a float).
ScaleTimes(s, e) == FMul(FromInt(s), e)
Scale(s, e) == FDiv(FromInt(s), e)

\* np.random.laplace(loc, scale) on the uniform draw u: refuses a scale whose
\* sign bit is set, and otherwise returns loc -/+ scale * log(..).
random_laplace(loc, scale, u) ==
    IF u.branch = "hi" THEN FSub(loc, FMul(scale, u.log))
    ELSE FAdd(loc, FMul(scale, u.log))

laplaceUnscaled(loc, scale, u) ==
    IF signbit(scale) THEN [ok |-> FALSE, x |-> Zero]
    ELSE [ok |-> TRUE,
          x |-> IF u.branch = "hi" THEN FSub(loc, u.log) ELSE FAdd(loc, u.log)]
laplaceUnchecked(loc, scale, u) == [ok |-> TRUE, x |-> random_laplace(loc, scale, u)]
laplace(loc, scale, u) ==
    IF signbit(scale) THEN [ok |-> FALSE, x |-> Zero]
    ELSE [ok |-> TRUE, x |-> random_laplace(loc, scale, u)]

NoResult == [kind |-> "none", int |-> 0, flt |-> Zero, err |-> ""]
IntResult(i) == [kind |-> "int", int |-> i, flt |-> Zero, err |-> ""]
FloatResult(x) == [kind |-> "float", int |-> 0, flt |-> x, err |-> ""]
Raised(e) == [kind |-> "error", int |-> 0, flt |-> Zero, err |-> e]

\* count + np.random.laplace(loc=0, scale=sensitivity/epsilon), the count
\* already evaluated: the division, then the sampler call, then the sum.
Returned(count, loc, scale, r) ==
    IF r.ok
    THEN [result |-> FloatResult(FAdd(FromInt(count), r.x)),
          req |-> <<[loc |-> loc, scale |-> scale]>>, noise |-> <<r.x>>]
    ELSE [result |-> Raised("ValueError"),
          req |-> <<[loc |-> loc, scale |-> scale]>>, noise |-> <<>>]

Sampled(count, loc, scale, u) == Returned(count, loc, scale, laplace(loc, scale, u))

Mechanism(count, s, e, u) ==
    IF IsZero(e)
    THEN [result |-> Raised("ZeroDivisionError"), req |-> <<>>, noise |-> <<>>]
    ELSE Sampled(count, FromInt(0), Scale(s, e), u)

\* ------------------------------------------------------------------ state
VARIABLES
    adult,        \* the table read from adult_with_pii.csv
    bound,        \* the globals the cells have assigned so far
    sensitivity,  \* global: int
    epsilon,      \* global: float
    karries_row,  \* global: the rows selected by name
    pc,           \* the statement to run next, or the cell that ran last
    true_value,   \* the count the running or last cell evaluated, if any
    result,       \* the value or exception of the running or last cell
    req,          \* the sampler calls of the running or last cell
    noise,        \* the samples returned to the running or last cell
    samples       \* samples drawn from the random source so far

vars == <<adult, bound, sensitivity, epsilon, karries_row, pc, true_value,
          result, req, noise, samples>>

Idle == {"start", "done117", "done169", "done227", "done267"}

Init ==
    /\ adult \in Datasets
    /\ bound = {}
    /\ sensitivity = 0
    /\ epsilon = Zero
    /\ karries_row = <<>>
    /\ pc = "start"
    /\ true_value = <<>>
    /\ result = NoResult
    /\ req = <<>>
    /\ noise = <<>>
    /\ samples = 0

\* A cell starts with its outputs cleared.
Fresh ==
    /\ true_value' = <<>>
    /\ result' = NoResult
    /\ req' = <<>>
    /\ noise' = <<>>

\* The cell's outputs once the mechanism expression has produced m.
Deliver(count, m) ==
    /\ true_value' = <<count>>
    /\ result' = m.result
    /\ req' = m.req
    /\ noise' = m.noise
    /\ samples' = samples + Len(m.noise)

\* count + np.random.laplace(loc=0, scale=sensitivity/epsilon) on the draw u.
Evaluate(count, u) == Deliver(count, Mechanism(count, sensitivity, epsilon, u))

\* In[6]: adult[adult['Age'] >= 40].shape[0]
AgeQueryInPlace(a) ==
    /\ pc \in Idle
    /\ adult' = FilterAge(adult, a)
    /\ true_value' = <<shape0(adult')>>
    /\ result' = IntResult(true_value'[1])
    /\ req' = <<>>
    /\ noise' = <<>>
    /\ pc' = "done117"
    /\ UNCHANGED <<bound, sensitivity, epsilon, karries_row, samples>>
AgeQuery(a) ==
    /\ pc \in Idle
    /\ true_value' = <<shape0(FilterAge(adult, a))>>
    /\ result' = IntResult(true_value'[1])
    /\ req' = <<>>
    /\ noise' = <<>>
    /\ pc' = "done117"
    /\ UNCHANGED <<adult, bound, sensitivity, epsilon, karries_row, samples>>

\* In[21], first statement: sensitivity = 1
AgeAssignSensitivity(s) ==
    /\ pc \in Idle
    /\ samples < MaxSamples
    /\ sensitivity' = s
    /\ bound' = bound \cup {"sensitivity"}
    /\ Fresh
    /\ pc' = "l167"
    /\ UNCHANGED <<adult, epsilon, karries_row, samples>>

\* In[21], second statement: epsilon = 0.1
AgeAssignEpsilon(e) ==
    /\ pc = "l167"
    /\ epsilon' = e
    /\ bound' = bound \cup {"epsilon"}
    /\ pc' = "l169"
    /\ UNCHANGED <<adult, sensitivity, karries_row, true_value, result, req,
                   noise, samples>>

\* In[21], the expression:
\* adult[adult['Age'] >= 40].shape[0] + np.random.laplace(loc=0, scale=sensitivity/epsilon)
AgeLaplace(a, u) ==
    /\ pc = "l169"
    /\ Evaluate(shape0(FilterAge(adult, a)), u)
    /\ pc' = "done169"
    /\ UNCHANGED <<adult, bound, sensitivity, epsilon, karries_row>>

\* In[28], first statement: karries_row = adult[adult['Name'] == 'Karrie Trusslove']
KarrieFilter(n) ==
    /\ pc \in Idle
    /\ karries_row' = FilterName(adult, n)
    /\ bound' = bound \cup {"karries_row"}
    /\ Fresh
    /\ pc' = "l227"
    /\ UNCHANGED <<adult, sensitivity, epsilon, samples>>

\* In[28], the expression: karries_row[karries_row['Target'] == '<=50K'].shape[0]
KarrieQuery(t) ==
    /\ pc = "l227"
    /\ true_value' = <<shape0(FilterTarget(karries_row, t))>>
    /\ result' = IntResult(true_value'[1])
    /\ pc' = "done227"
    /\ UNCHANGED <<adult, bound, sensitivity, epsilon, karries_row, req, noise,
                   samples>>

\* In[29], first statement: sensitivity = 1
KarrieAssignSensitivity(s) ==
    /\ pc \in Idle
    /\ samples < MaxSamples
    /\ sensitivity' = s
    /\ bound' = bound \cup {"sensitivity"}
    /\ Fresh
    /\ pc' = "l263"
    /\ UNCHANGED <<adult, epsilon, karries_row, samples>>

\* In[29], second statement: epsilon = 0.1
KarrieAssignEpsilon(e) ==
    /\ pc = "l263"
    /\ epsilon' = e
    /\ bound' = bound \cup {"epsilon"}
    /\ pc' = "l265"
    /\ UNCHANGED <<adult, sensitivity, karries_row, true_value, result, req,
                   noise, samples>>

\* In[29], third statement: karries_row = adult[adult['Name'] == 'Karrie Trusslove']
KarrieFilterDP(n) ==
    /\ pc = "l265"
    /\ karries_row' = FilterName(adult, n)
    /\ bound' = bound \cup {"karries_row"}
    /\ pc' = "l266"
    /\ UNCHANGED <<adult, sensitivity, epsilon, true_value, result, req, noise,
                   samples>>

\* In[29], the expression:
\* karries_row[karries_row['Target'] == '<=50K'].shape[0] + np.random.laplace(loc=0, scale=sensitivity/epsilon)
KarrieLaplace(t, u) ==
    /\ pc = "l266"
    /\ Evaluate(shape0(FilterTarget(karries_row, t)), u)
    /\ pc' = "done267"
    /\ UNCHANGED <<adult, bound, sensitivity, epsilon, karries_row>>

Next ==
    \/ \E a \in AgeLiterals : AgeQuery(a)
    \/ \E s \in SensValues : AgeAssignSensitivity(s)
    \/ \E e \in EpsValues : AgeAssignEpsilon(e)
    \/ \E a \in AgeLiterals, u \in Draws : AgeLaplace(a, u)
    \/ \E n \in Names : KarrieFilter(n)
    \/ \E t \in Targets : KarrieQuery(t)
    \/ \E s \in SensValues : KarrieAssignSensitivity(s)
    \/ \E e \in EpsValues : KarrieAssignEpsilon(e)
    \/ \E n \in Names : KarrieFilterDP(n)
    \/ \E t \in Targets, u \in Draws : KarrieLaplace(t, u)

Spec == Init /\ [][Next]_vars

\* ----------------------------------------------------------------- claims
LaplaceDone == pc \in {"done169", "done267"}

Abs(i) == IF i < 0 THEN -i ELSE i

\* The value of a float as an exact integer.
IsInt(x, i) == x.d = 1 /\ SNum(x) = i

\* C1: a Laplace cell run with epsilon <= 0 (zero included) fails, whatever the
\* sensitivity: its result is an exception and no noise sample was drawn.
C1_NonPositiveEpsilonFails ==
    LaplaceDone /\ Le(epsilon, Zero) => result.kind = "error" /\ noise = <<>>

\* C2: a Laplace cell run with sensitivity < 0 and epsilon > 0 fails with the
\* invalid-argument exception (ValueError) and returns no number.
C2_NegativeSensitivityFails ==
    LaplaceDone /\ sensitivity < 0 /\ Lt(Zero, epsilon)
        => result.kind = "error" /\ result.err = "ValueError" /\ noise = <<>>

C2_Witness ==
    /\ LaplaceDone /\ sensitivity < 0 /\ Lt(Zero, epsilon)
    /\ result.kind = "error"
    /\ Len(req) = 1 /\ Lt(req[1].scale, Zero)

\* C3: a Laplace cell run with sensitivity = 0 and epsilon > 0 succeeds, the
\* noise it adds is zero and its result is exactly the true count.
C3_ZeroSensitivityReturnsTrueValue ==
    LaplaceDone /\ sensitivity = 0 /\ Lt(Zero, epsilon)
        => /\ result.kind = "float"
           /\ Len(noise) = 1 /\ IsZero(noise[1])
           /\ IsInt(result.flt, true_value[1])

C3_Witness ==
    /\ LaplaceDone /\ sensitivity = 0 /\ Lt(Zero, epsilon)
    /\ result.kind = "float" /\ true_value[1] > 0
    /\ IsInt(result.flt, true_value[1])

\* A table that differs from df in the one record at index i.
Replace(df, i, r) == [df EXCEPT ![i] = r]

Neighbours(df) == {Replace(df, i, r) : i \in DOMAIN df, r \in Records}

\* C4: replacing one record of the table changes every count by at most 1:
\* the counts by age, by name, by target and the two-step count, and the count
\* the Age >= a cell has just returned.
C4_CountSensitivityAtMostOne ==
    /\ \A x2 \in Neighbours(adult) :
          /\ \A a \in AgeLiterals :
                Abs(shape0(FilterAge(adult, a)) - shape0(FilterAge(x2, a))) <= 1
          /\ \A n \in Names :
                Abs(shape0(FilterName(adult, n)) - shape0(FilterName(x2, n))) <= 1
          /\ \A t \in Targets :
                Abs(shape0(FilterTarget(adult, t)) - shape0(FilterTarget(x2, t))) <= 1
          /\ \A n \in Names, t \in Targets :
                Abs(shape0(FilterTarget(FilterName(adult, n), t))
                    - shape0(FilterTarget(FilterName(x2, n), t))) <= 1
    /\ pc = "done117" =>
          \E a \in AgeLiterals :
             /\ result = IntResult(Len(FilterAge(adult, a)))
             /\ \A x2 \in Neighbours(adult) :
                   Abs(result.int - shape0(FilterAge(x2, a))) <= 1

C4_Witness ==
    /\ pc = "done117"
    /\ \E a \in AgeLiterals, x2 \in Neighbours(adult) :
          /\ result = IntResult(Len(FilterAge(adult, a)))
          /\ shape0(FilterAge(x2, a)) = result.int - 1

\* C5: a Laplace cell run with epsilon > 0 and sensitivity >= 0 calls the
\* sampler once, with location 0 and scale sensitivity/epsilon, draws one
\* sample and returns the true count plus that sample.
C5_OneSampleAddedToTrueValue ==
    LaplaceDone /\ sensitivity >= 0 /\ Lt(Zero, epsilon)
        => /\ Len(req) = 1 /\ Len(noise) = 1
           /\ IsZero(req[1].loc) /\ ~signbit(req[1].loc)
           /\ req[1].scale = FDiv(FromInt(sensitivity), epsilon)
           /\ result.kind = "float"
           /\ result.flt = FAdd(FromInt(true_value[1]), noise[1])

C5_Witness ==
    /\ LaplaceDone /\ sensitivity > 0 /\ Lt(Zero, epsilon)
    /\ result.kind = "float" /\ true_value[1] > 0
    /\ Len(noise) = 1 /\ ~IsZero(noise[1])
    /\ result.flt # FromInt(true_value[1])

CountSteps == {"done117", "done169", "done227", "done267"}

\* C8: no step changes the table; a step that evaluates a count or the
\* mechanism leaves sensitivity, epsilon and karries_row as they were; the
\* random source advances by exactly the samples the step drew; and the result
\* of a mechanism step is fixed by its own count, the current sensitivity and
\* epsilon and the sample drawn in that step.
C8_CallsAreStateless ==
    [][ /\ adult' = adult
        /\ pc' \in CountSteps =>
              /\ UNCHANGED <<sensitivity, epsilon, karries_row, bound>>
              /\ Len(true_value') = 1
              /\ true_value'[1] \in
                    {Len(FilterAge(adult, a)) : a \in AgeLiterals}
                    \cup {Len(FilterTarget(karries_row, t)) : t \in Targets}
        /\ samples' = samples + (IF pc' \in {"done169", "done267"}
                                 THEN Len(noise') ELSE 0)
        /\ pc' \in {"done169", "done267"} =>
              /\ Len(noise') <= 1
              /\ IF noise' = <<>>
                 THEN result'.kind = "error"
                 ELSE /\ result' = FloatResult(FAdd(FromInt(true_value'[1]), noise'[1]))
                      /\ \E u \in Draws :
                            noise'[1] =
                               IF u.branch = "hi"
                               THEN FSub(Zero, FMul(FDiv(FromInt(sensitivity), epsilon), u.log))
                               ELSE FAdd(Zero, FMul(FDiv(FromInt(sensitivity), epsilon), u.log))
      ]_vars

C8_Witness ==
    /\ pc = "done267" /\ samples = MaxSamples
    /\ result.kind = "float" /\ ~IsZero(noise[1])
    /\ Len(adult) = MaxRecords /\ Len(karries_row) = 1

PosSens == {s \in SensValues : s > 0}
PosEps == {e \in EpsValues : Lt(Zero, e)}

\* Over every pair of literals: the smaller epsilon's scale is not the smaller.
ScaleMonotone ==
    \A s \in PosSens, e1 \in PosEps, e2 \in PosEps :
        Lt(e1, e2) => Le(Scale(s, e2), Scale(s, e1))

\* C9 as amended: for a sensitivity > 0 and epsilons 0 < e1 < e2 the scale
\* sensitivity/e1 is never smaller than the scale sensitivity/e2, both for the
\* scale the last Laplace cell asked the sampler for and for every pair of
\* literals.
C9_ScaleNeverSmallerForSmallerEpsilon ==
    /\ ScaleMonotone
    /\ LaplaceDone /\ sensitivity > 0 /\ Lt(Zero, epsilon) =>
          /\ Len(req) = 1
          /\ \A e2 \in PosEps :
                /\ Lt(epsilon, e2) => Le(Scale(sensitivity, e2), req[1].scale)
                /\ Lt(e2, epsilon) => Le(req[1].scale, Scale(sensitivity, e2))

C9_Witness ==
    /\ LaplaceDone /\ sensitivity > 0 /\ Lt(Zero, epsilon) /\ Len(req) = 1
    /\ \E e2 \in PosEps :
          Lt(epsilon, e2) /\ Lt(Scale(sensitivity, e2), req[1].scale)

\* C9 as stated: the scale for the smaller epsilon is strictly larger.
C9_ScaleStrictlyLargerForSmallerEpsilon ==
    LaplaceDone /\ sensitivity > 0 /\ Lt(Zero, epsilon) /\ Len(req) = 1 =>
        \A e2 \in PosEps :
            Lt(epsilon, e2) => Lt(Scale(sensitivity, e2), req[1].scale)

Both(df, n, t) == {i \in DOMAIN df : df[i].Name = n /\ df[i].Target = t}
Named(df, n) == {i \in DOMAIN df : df[i].Name = n}

\* C10: counting the rows with Target = t among the rows already selected by
\* Name = n gives the number of rows of the table with both; it lies between 0
\* and the number of rows with that name, so it is 0 or 1 when at most one row
\* has the name; and the count a two-step cell returns is such a count.
C10_TwoStepCountIsConjunction ==
    /\ \A n \in Names, t \in Targets :
          LET c == shape0(FilterTarget(FilterName(adult, n), t))
          IN  /\ c = Cardinality(Both(adult, n, t))
              /\ 0 <= c /\ c <= Cardinality(Named(adult, n))
              /\ Cardinality(Named(adult, n)) <= 1 => c \in {0, 1}
    /\ pc \in {"done227", "done267"} =>
          \E n \in Names, t \in Targets :
             /\ karries_row = FilterName(adult, n)
             /\ true_value = <<Cardinality(Both(adult, n, t))>>
             /\ true_value[1] <= Len(karries_row)
    /\ pc = "done227" => result = IntResult(true_value[1])

C10_Witness ==
    /\ pc = "done227" /\ result.int = 1
    /\ Len(karries_row) = 2
    /\ \E i \in DOMAIN karries_row : karries_row[i].Target = ">50K"

====
